---- MODULE Spec2Model ----
(***************************************************************************)
(* Inverted index and BM25 retrieval of the Smart-CLIR-System repository:  *)
(*   src/indexing/build_index.py   DocumentPreprocessor, InvertedIndex     *)
(*   src/retrieval/lexical_bm25.py BM25Retriever                           *)
(* Texts and terms are sequences of Unicode code points.  Real numbers    *)
(* that the code holds as floats are exact rationals [num, den], except    *)
(* the logarithm of the IDF, which is a fixed-point number of LogScale     *)
(* units.                                                                  *)
(***************************************************************************)
EXTENDS Integers, Sequences, FiniteSets, TLC

VARIABLES
    index,           \* InvertedIndex.index: term -> sequence of <<doc_id, freq>>
    doc_lengths,     \* InvertedIndex.doc_lengths: doc_id -> length
    doc_count,       \* InvertedIndex.doc_count
    avg_doc_length,  \* InvertedIndex.avg_doc_length, a rational [num, den]
    term_doc_freq,   \* InvertedIndex.term_doc_freq: term -> counter
    documents,       \* InvertedIndex.documents: doc_id -> metadata
    loaded,          \* BM25Retriever.index is not None: it is the index above
    k1,              \* BM25Retriever.k1, a rational [num, den]
    b,               \* BM25Retriever.b, a rational [num, den]
    blob,            \* the pickle file that save writes and load reads
    added,           \* history: the doc_ids of the add_document calls, in call order
    seen_terms,      \* history: the terms of the tokens of the add_document calls
    saved,           \* history: the index as it was at the last save
    finalized,       \* history: finalize has been called
    call,            \* history: the last call made and its arguments
    result           \* the value the last call returned (or the error it raised)

vars == <<index, doc_lengths, doc_count, avg_doc_length, term_doc_freq, documents,
          loaded, k1, b, blob, added, seen_terms, saved, finalized, call, result>>

\* the fields of the retriever other than its index, and the file
retriever_vars == <<loaded, k1, b>>
file_vars == <<blob, saved>>

----------------------------------------------------------------------------
(* Bounds of the model *)

\* add_document calls in a behaviour of Spec
MaxDocs == 2
\* tokens in one document of Spec
MaxTokens == 2
\* add_document calls in a behaviour of SpecSearch
MaxSearchDocs == 2
\* the largest top_k of a search
MaxTopK == 2
\* add_document calls in a behaviour of SpecLookup
MaxLookupDocs == 2
\* add_document calls in a behaviour of SpecRetriever
MaxRetrieverDocs == 2
\* the words of a text of SpecPreprocess
MaxWords == 2
\* the documents of a corpus of SpecCombined
MaxCorpus == 2
\* the largest document count, term frequency and document length of SpecScore
MaxN == 3
MaxTf == 3
MaxLength == 3

----------------------------------------------------------------------------
(* Generic helpers *)

Range(s) == {s[i] : i \in 1..Len(s)}

Min(x, y) == IF x <= y THEN x ELSE y

RECURSIVE GCD(_, _)
GCD(x, y) == IF y = 0 THEN x ELSE GCD(y, x % y)

\* the rational n/d (d > 0, n >= 0) in lowest terms
Rat(n, d) == LET g == GCD(n, d) IN [num |-> n \div g, den |-> d \div g]

RECURSIVE SumOver(_, _)
SumOver(f, S) ==
    IF S = {} THEN 0
    ELSE LET x == CHOOSE y \in S : TRUE IN f[x] + SumOver(f, S \ {x})

\* sequences over S of length at most n
SeqsUpTo(S, n) == UNION {[1..k -> S] : k \in 0..n}

\* dict.get(key, default)
Get(d, key, default) == IF key \in DOMAIN d THEN d[key] ELSE default

\* d[key] = value on a dict
Put(d, key, value) ==
    [k \in DOMAIN d \cup {key} |-> IF k = key THEN value ELSE d[k]]

----------------------------------------------------------------------------
(* DocumentPreprocessor.  A character is its Unicode code point. *)

\* self.english_stopwords
english_stopwords == {
    <<97>>, <<97,110>>, <<97,110,100>>, <<97,114,101>>, <<97,115>>, <<97,116>>,
    <<98,101>>, <<98,121>>, <<102,111,114>>, <<102,114,111,109>>, <<104,97,115>>,
    <<104,101>>, <<105,110>>, <<105,115>>, <<105,116>>, <<105,116,115>>, <<111,102>>,
    <<111,110>>, <<116,104,97,116>>, <<116,104,101>>, <<116,111>>, <<119,97,115>>,
    <<119,105,108,108>>, <<119,105,116,104>>, <<116,104,105,115>>, <<98,117,116>>,
    <<116,104,101,121>>, <<104,97,118,101>>, <<104,97,100>>, <<119,104,97,116>>,
    <<119,104,101,110>>, <<119,104,101,114,101>>, <<119,104,111>>,
    <<119,104,105,99,104>>, <<119,104,121>>, <<104,111,119>>
    }

\* self.bangla_stopwords
bangla_stopwords == {
    <<2447,2476,2434>>, <<2476,2494>>, <<2479,2503>>, <<2447,2439>>, <<2488,2503,2439>>,
    <<2479,2494>>, <<2468,2494>>, <<2447,2453>>, <<2447,2453,2463,2495>>,
    <<2453,2495,2459,2497>>, <<2453,2507,2472>>, <<2453,2480,2494>>, <<2489,2479,2492>>,
    <<2489,2476,2503>>, <<2459,2495,2482>>, <<2438,2459,2503>>, <<2469,2503,2453,2503>>,
    <<2488,2457,2509,2455,2503>>, <<2470,2509,2476,2494,2480,2494>>,
    <<2460,2472,2509,2479>>, <<2478,2471,2509,2479,2503>>, <<2441,2474,2480>>,
    <<2472,2495,2458,2503>>, <<2438,2455,2503>>, <<2474,2480,2503>>, <<2478,2468>>,
    <<2488,2494,2469,2503>>, <<2453,2495,2472,2509,2468,2497>>, <<2479,2470,2495>>,
    <<2468,2476,2503>>, <<2472,2494>>, <<2472,2479,2492>>,
    <<2489,2479,2492,2503,2459,2503>>, <<2489,2479,2492,2503,2459,2495,2482>>,
    <<2453,2480,2503,2459,2503>>, <<2453,2480,2503,2459,2495,2482>>,
    <<2476,2482,2503,2472>>, <<2476,2482,2503>>, <<2476,2482,2494>>,
    <<2460,2494,2472,2494>>, <<2460,2494,2472,2494,2479,2492>>, <<2470,2503,2479,2492>>,
    <<2470,2503,2451,2479,2492,2494>>, <<2472,2503,2479,2492>>,
    <<2472,2503,2451,2479,2492,2494>>
    }

\* \s of re and the separators of str.split(): the Unicode whitespace
IsSpace(c) ==
    c \in {9, 10, 11, 12, 13, 28, 29, 30, 31, 32, 133, 160, 5760, 8232, 8233,
           8239, 8287, 12288} \cup (8192..8202)

\* [U+0980-U+09FF]
IsBanglaChar(c) == c \in 2432..2559

\* [a-zA-Z0-9]
IsAsciiAlnum(c) == c \in (48..57) \cup (65..90) \cup (97..122)

\* str.lower() on the characters either script filter keeps
LowerChar(c) == IF c \in 65..90 THEN c + 32 ELSE c

\* is_bangla: the text holds a character of the Bangla block
is_bangla(text) == \E i \in 1..Len(text) : IsBanglaChar(text[i])

\* the last position of the run of non-whitespace characters that holds i
RECURSIVE RunEnd(_, _)
RunEnd(text, i) ==
    IF i < Len(text) /\ ~IsSpace(text[i + 1]) THEN RunEnd(text, i + 1) ELSE i

\* text[i..] starts with the characters of word
StartsWith(text, i, word) ==
    /\ i + Len(word) - 1 <= Len(text)
    /\ \A k \in 1..Len(word) : text[i + k - 1] = word[k]

\* where a match of http\S+|www\S+ that starts at i ends (0: no match at i)
UrlMatchEnd(text, i) ==
    LET http == <<104, 116, 116, 112>>
        www  == <<119, 119, 119>>
    IN  IF /\ StartsWith(text, i, http)
           /\ i + 4 <= Len(text)
           /\ ~IsSpace(text[i + 4])
        THEN RunEnd(text, i + 4)
        ELSE IF /\ StartsWith(text, i, www)
                /\ i + 3 <= Len(text)
                /\ ~IsSpace(text[i + 3])
             THEN RunEnd(text, i + 3)
             ELSE 0

\* where a match of \S+@\S+ that starts at i ends (0: no match at i)
EmailMatchEnd(text, i) ==
    IF /\ ~IsSpace(text[i])
       /\ \E j \in (i + 1)..(RunEnd(text, i) - 1) : text[j] = 64
    THEN RunEnd(text, i)
    ELSE 0

\* where a match of the pattern that starts at i ends (0: no match at i)
MatchEnd(pattern, text, i) ==
    IF pattern = "url" THEN UrlMatchEnd(text, i) ELSE EmailMatchEnd(text, i)

\* re.sub(pattern, '', text) from position i on
RECURSIVE RemoveMatches(_, _, _)
RemoveMatches(pattern, text, i) ==
    IF i > Len(text) THEN <<>>
    ELSE LET e == MatchEnd(pattern, text, i) IN
         IF e > 0 THEN RemoveMatches(pattern, text, e + 1)
         ELSE <<text[i]>> \o RemoveMatches(pattern, text, i + 1)

\* re.sub(r'[^U+0980-U+09FF\s]', ' ', text) or re.sub(r'[^a-zA-Z0-9\s]', ' ', text)
ScriptFilter(text, language) ==
    [i \in 1..Len(text) |->
        IF IsSpace(text[i]) THEN text[i]
        ELSE IF language = "bn"
             THEN (IF IsBanglaChar(text[i]) THEN text[i] ELSE 32)
             ELSE (IF IsAsciiAlnum(text[i]) THEN text[i] ELSE 32)]

\* text.lower() that changes no character
LowerNothing(text) == text

\* text.lower()
Lower(text) == [i \in 1..Len(text) |-> LowerChar(text[i])]

\* text.split(): the maximal runs of non-whitespace characters, from position i on
RECURSIVE Split(_, _)
Split(text, i) ==
    IF i > Len(text) THEN <<>>
    ELSE IF IsSpace(text[i]) THEN Split(text, i + 1)
    ELSE LET e == RunEnd(text, i) IN
         <<SubSeq(text, i, e)>> \o Split(text, e + 1)

\* the language tokenize resolves 'auto' to
TokenizeLanguage(text, language) ==
    IF language = "auto" THEN (IF is_bangla(text) THEN "bn" ELSE "en") ELSE language

tokenize(text, language) ==
    LET lang == TokenizeLanguage(text, language)
        t1 == RemoveMatches("url", text, 1)
        t2 == RemoveMatches("email", t1, 1)
        t3 == ScriptFilter(t2, lang)
    IN  Split(Lower(t3), 1)

\* the language of remove_stopwords with 'auto' always resolved to English
StopwordLanguageEnglish(tokens, language) ==
    IF language = "auto" THEN "en" ELSE language

\* the language remove_stopwords resolves 'auto' to: that of the first token
StopwordLanguage(tokens, language) ==
    IF language = "auto"
    THEN (IF Len(tokens) > 0 /\ is_bangla(tokens[1]) THEN "bn" ELSE "en")
    ELSE language

\* remove_stopwords that removes nothing
remove_no_stopwords(tokens, language) == tokens

remove_stopwords(tokens, language) ==
    LET lang == StopwordLanguage(tokens, language)
        stopwords == IF lang = "bn" THEN bangla_stopwords ELSE english_stopwords
    IN  SelectSeq(tokens, LAMBDA t : t \notin stopwords)

\* preprocess of a str; an empty text is falsy and yields []
preprocess(text, language) ==
    IF Len(text) = 0 THEN <<>>
    ELSE SelectSeq(remove_stopwords(tokenize(text, language), language),
                   LAMBDA t : Len(t) > 1)

----------------------------------------------------------------------------
(* InvertedIndex *)

\* term_freq of add_document: occurrences of each distinct token
\* a term_freq that counts every term of the document once
TermFreqPresence(tokens) == [t \in Range(tokens) |-> 1]

TermFreq(tokens) ==
    [t \in Range(tokens) |-> Cardinality({i \in 1..Len(tokens) : tokens[i] = t})]

\* self.index[term].append((doc_id, freq)) for every term of term_freq
AppendPostingsFront(ix, doc_id, tokens) ==
    LET tf == TermFreq(tokens) IN
    [t \in DOMAIN ix \cup DOMAIN tf |->
        IF t \in DOMAIN tf THEN <<<<doc_id, tf[t]>>>> \o Get(ix, t, <<>>) ELSE ix[t]]

AppendPostings(ix, doc_id, tokens) ==
    LET tf == TermFreq(tokens) IN
    [t \in DOMAIN ix \cup DOMAIN tf |->
        IF t \in DOMAIN tf THEN Append(Get(ix, t, <<>>), <<doc_id, tf[t]>>) ELSE ix[t]]

\* self.term_doc_freq[term] += 1 for every term of term_freq
BumpDocFreqByFreq(tdf, tokens) ==
    LET tf == TermFreq(tokens) IN
    [t \in DOMAIN tdf \cup DOMAIN tf |->
        IF t \in DOMAIN tf THEN Get(tdf, t, 0) + tf[t] ELSE tdf[t]]

BumpDocFreq(tdf, tokens) ==
    LET tf == TermFreq(tokens) IN
    [t \in DOMAIN tdf \cup DOMAIN tf |->
        IF t \in DOMAIN tf THEN Get(tdf, t, 0) + 1 ELSE tdf[t]]

\* sum(self.doc_lengths.values()) / self.doc_count
MeanLengthOverKeys(lengths, count) ==
    Rat(SumOver(lengths, DOMAIN lengths), Cardinality(DOMAIN lengths))

MeanLength(lengths, count) == Rat(SumOver(lengths, DOMAIN lengths), count)

\* self.doc_lengths[doc_id] = len(tokens)
StoreLengthReset(lengths, doc_id, tokens) == [k \in {doc_id} |-> Len(tokens)]

StoreLength(lengths, doc_id, tokens) == Put(lengths, doc_id, Len(tokens))

\* what a call that returns None leaves as its result
NoResult == [status |-> "none"]

\* add_document keeping avg_doc_length up to date on every call
add_document_with_average(doc_id, tokens, metadata) ==
    /\ index' = AppendPostings(index, doc_id, tokens)
    /\ term_doc_freq' = BumpDocFreq(term_doc_freq, tokens)
    /\ doc_lengths' = StoreLength(doc_lengths, doc_id, tokens)
    /\ documents' = Put(documents, doc_id, metadata)
    /\ doc_count' = doc_count + 1
    /\ avg_doc_length' = MeanLength(doc_lengths', doc_count')
    /\ added' = Append(added, doc_id)
    /\ seen_terms' = seen_terms \cup Range(tokens)
    /\ UNCHANGED <<finalized, retriever_vars, file_vars>>
    /\ call' = [op |-> "add_document", doc_id |-> doc_id, tokens |-> tokens,
                metadata |-> metadata]
    /\ result' = NoResult

add_document(doc_id, tokens, metadata) ==
    /\ index' = AppendPostings(index, doc_id, tokens)
    /\ term_doc_freq' = BumpDocFreq(term_doc_freq, tokens)
    /\ doc_lengths' = StoreLength(doc_lengths, doc_id, tokens)
    /\ documents' = Put(documents, doc_id, metadata)
    /\ doc_count' = doc_count + 1
    /\ UNCHANGED avg_doc_length
    /\ added' = Append(added, doc_id)
    /\ seen_terms' = seen_terms \cup Range(tokens)
    /\ UNCHANGED <<finalized, retriever_vars, file_vars>>
    /\ call' = [op |-> "add_document", doc_id |-> doc_id, tokens |-> tokens,
                metadata |-> metadata]
    /\ result' = NoResult

finalize ==
    /\ avg_doc_length' = IF doc_count > 0 THEN MeanLength(doc_lengths, doc_count)
                         ELSE avg_doc_length
    /\ UNCHANGED <<index, doc_lengths, doc_count, term_doc_freq, documents, added,
                   seen_terms, retriever_vars, file_vars>>
    /\ finalized' = TRUE
    /\ call' = [op |-> "finalize"]
    /\ result' = NoResult

\* self.index.get(term, [])
get_postings(term) == Get(index, term, <<>>)

\* self.term_doc_freq.get(term, 0)
get_document_frequency_or_one(term) == Get(term_doc_freq, term, 1)

get_document_frequency(term) == Get(term_doc_freq, term, 0)

\* the defaultdict d after d[key] has been read for each key of keys
AfterGetItem(d, keys, default) ==
    [key \in DOMAIN d \cup keys |-> IF key \in DOMAIN d THEN d[key] ELSE default]

\* the defaultdict d after d.get(key, default) has been called for each key of
\* keys: get never calls the default factory, so no key is inserted
AfterGet(d, keys, default) == d

\* the fields of the index, as save reads them and load sets them
IndexFields ==
    [index |-> index, doc_lengths |-> doc_lengths, doc_count |-> doc_count,
     avg_doc_length |-> avg_doc_length, term_doc_freq |-> term_doc_freq,
     documents |-> documents]

\* the history of the index object
IndexHistory == [added |-> added, seen_terms |-> seen_terms, finalized |-> finalized]

\* the dict that save pickles: dict(defaultdict) keeps the keys and the values
\* and drops the default factory
SaveData(fields) ==
    [index |-> fields.index, doc_lengths |-> fields.doc_lengths,
     doc_count |-> fields.doc_count, avg_doc_length |-> fields.avg_doc_length,
     term_doc_freq |-> fields.term_doc_freq, documents |-> fields.documents]

\* no file has been written
NoFile == [exists |-> FALSE]

save ==
    /\ blob' = [exists |-> TRUE, data |-> SaveData(IndexFields)]
    /\ saved' = [fields |-> IndexFields, history |-> IndexHistory]
    /\ UNCHANGED <<index, doc_lengths, doc_count, avg_doc_length, term_doc_freq,
                   documents, added, seen_terms, finalized, retriever_vars>>
    /\ call' = [op |-> "save"]
    /\ result' = NoResult

\* the fields of the index that load builds from the unpickled dict
LoadFieldsWithoutAverage(data) ==
    [index |-> data.index, doc_lengths |-> data.doc_lengths,
     doc_count |-> data.doc_count, avg_doc_length |-> Rat(0, 1),
     term_doc_freq |-> data.term_doc_freq, documents |-> data.documents]

LoadFields(data) ==
    [index |-> data.index, doc_lengths |-> data.doc_lengths,
     doc_count |-> data.doc_count, avg_doc_length |-> data.avg_doc_length,
     term_doc_freq |-> data.term_doc_freq, documents |-> data.documents]

----------------------------------------------------------------------------
(* BM25Retriever.  When the retriever has an index (loaded), it is the      *)
(* InvertedIndex above.                                                    *)

\* `not self.index`: None is falsy, an InvertedIndex object is truthy whatever
\* it holds (the class defines neither __bool__ nor __len__)
IndexMissingNever(is_loaded) == FALSE

IndexMissing(is_loaded) == ~is_loaded

\* k1 = 1.5 and b = 0.75, the defaults of __init__, as fractions
K1Num == 3
K1Den == 2
BNum == 3
BDen == 4

DefaultK1 == Rat(K1Num, K1Den)
DefaultB == Rat(BNum, BDen)

\* units per 1.0 of the fixed-point value of math.log
LogScale == 10000

\* sum of term/k + term*z2/(k+2) + ... : the series of atanh, in LogScale units
RECURSIVE AtanhSeries(_, _, _)
AtanhSeries(term, z2, k) ==
    IF term = 0 THEN 0
    ELSE (term \div k) + AtanhSeries((term * z2) \div LogScale, z2, k + 2)

\* math.log(p / q) for p >= q > 0, as 2 * atanh((p - q) / (p + q))
Log(p, q) ==
    LET z == ((p - q) * LogScale) \div (p + q)
    IN  2 * AtanhSeries(z, (z * z) \div LogScale, 1)

\* log((N - df + 0.5) / (df + 0.5)), the IDF without the + 1.0
IdfUnsmoothed(N, df) ==
    IF df = 0 THEN 0
    ELSE IF N - df >= df THEN Log(2 * (N - df) + 1, 2 * df + 1)
    ELSE 0 - Log(2 * df + 1, 2 * (N - df) + 1)

\* compute_idf on a term of document frequency df among N documents:
\* log((N - df + 0.5) / (df + 0.5) + 1.0) = log((2N + 2) / (2df + 1))
Idf(N, df) == IF df = 0 THEN 0 ELSE Log(2 * N + 2, 2 * df + 1)

compute_idf(term) ==
    IF IndexMissing(loaded) THEN 0
    ELSE Idf(doc_count, get_document_frequency(term))

\* the tf loop of compute_bm25_score without its test of the doc_id
TermFrequencyOfAnyDoc(postings, doc_id) ==
    IF postings = <<>> THEN 0 ELSE postings[1][2]

\* the tf loop of compute_bm25_score: the freq of the first posting of doc_id, else 0
TermFrequency(postings, doc_id) ==
    LET hits == {i \in 1..Len(postings) : postings[i][1] = doc_id}
    IN  IF hits = {} THEN 0
        ELSE postings[CHOOSE i \in hits : \A j \in hits : i <= j][2]

\* idf * (numerator / denominator) with the numerator k1 + 1
TermScoreWithoutTf(idf, tf, doc_length, avg) ==
    LET num == (k1.num + k1.den) * b.den * avg.num
        den == tf * k1.den * b.den * avg.num
               + k1.num * ((b.den - b.num) * avg.num + b.num * doc_length * avg.den)
    IN  (idf * num) \div den

\* idf * (numerator / denominator) of compute_bm25_score with avgdl = avg.num / avg.den:
\*   numerator / denominator
\*     = tf * (k1 + 1) / (tf + k1 * (1 - b + b * doc_length / avgdl))
TermScore(idf, tf, doc_length, avg) ==
    LET num == tf * (k1.num + k1.den) * b.den * avg.num
        den == tf * k1.den * b.den * avg.num
               + k1.num * ((b.den - b.num) * avg.num + b.num * doc_length * avg.den)
    IN  (idf * num) \div den

\* what one query term adds to the score in the loop of compute_bm25_score,
\* avgdl being positive
TermContribution(idf, tf, doc_length, avg) ==
    IF idf = 0 \/ tf = 0 THEN 0 ELSE TermScore(idf, tf, doc_length, avg)

\* the loop of compute_bm25_score over query_terms[i..]:
\* [error |-> a ZeroDivisionError was raised, score |-> the sum]
RECURSIVE ScoreTerms(_, _, _, _)
ScoreTerms(query_terms, i, doc_id, doc_length) ==
    IF i > Len(query_terms) THEN [error |-> FALSE, score |-> 0]
    ELSE LET term == query_terms[i]
             idf == compute_idf(term)
             tf == TermFrequency(get_postings(term), doc_id)
             rest == ScoreTerms(query_terms, i + 1, doc_id, doc_length)
         IN  IF idf = 0 \/ tf = 0 THEN rest
             ELSE IF avg_doc_length.num = 0 THEN [error |-> TRUE, score |-> 0]
             ELSE [error |-> rest.error,
                   score |-> TermScore(idf, tf, doc_length, avg_doc_length) + rest.score]

compute_bm25_score(query_terms, doc_id) ==
    LET doc_length == Get(doc_lengths, doc_id, 0)
    IN  IF IndexMissing(loaded) \/ doc_length = 0 THEN [error |-> FALSE, score |-> 0]
        ELSE ScoreTerms(query_terms, 1, doc_id, doc_length)

\* candidate_docs of search: the doc_ids of the query terms' postings
CandidateDocsAll(query_terms) == DOMAIN doc_lengths

CandidateDocs(query_terms) ==
    UNION {{get_postings(query_terms[i])[j][1] :
                j \in 1..Len(get_postings(query_terms[i]))} :
           i \in 1..Len(query_terms)}

\* the orders in which a set can be iterated
Orders(S) ==
    {o \in [1..Cardinality(S) -> S] : \A i, j \in DOMAIN o : i # j => o[i] # o[j]}

\* scored_docs of search: the candidates of positive score, in iteration order
KeepScored(order, query_terms) ==
    LET entry(d) == [doc_id |-> d,
                     score |-> compute_bm25_score(query_terms, d).score,
                     title |-> documents[d].title,
                     url |-> documents[d].url,
                     language |-> documents[d].language]
        all == [i \in DOMAIN order |-> entry(order[i])]
    IN  SelectSeq(all, LAMBDA e : e.score > 0)

\* scored_docs.sort(key=score, reverse=True): stable, descending
RECURSIVE SortAscending(_)
SortAscending(s) ==
    IF s = <<>> THEN <<>>
    ELSE LET rest == SortAscending(Tail(s))
             k == Cardinality({i \in 1..Len(rest) : rest[i].score < Head(s).score})
         IN  SubSeq(rest, 1, k) \o <<Head(s)>> \o SubSeq(rest, k + 1, Len(rest))

RECURSIVE SortByScore(_)
SortByScore(s) ==
    IF s = <<>> THEN <<>>
    ELSE LET rest == SortByScore(Tail(s))
             k == Cardinality({i \in 1..Len(rest) : rest[i].score > Head(s).score})
         IN  SubSeq(rest, 1, k) \o <<Head(s)>> \o SubSeq(rest, k + 1, Len(rest))

\* scored_docs[:top_k] for top_k >= 0
TopKOffByOne(s, top_k) == SubSeq(s, 1, Min(top_k + 1, Len(s)))

TopK(s, top_k) == SubSeq(s, 1, Min(top_k, Len(s)))

\* the confidence and caution of the returned results
AnnotateBySum(top_results) ==
    LET total == SumOver([i \in DOMAIN top_results |-> top_results[i].score],
                         DOMAIN top_results)
    IN  [i \in DOMAIN top_results |->
            LET r == top_results[i]
                confidence == IF total > 0 THEN Rat(r.score, total) ELSE Rat(0, 1)
            IN  [doc_id |-> r.doc_id, score |-> r.score, title |-> r.title,
                 url |-> r.url, language |-> r.language,
                 confidence |-> confidence,
                 caution |-> 10 * confidence.num < 3 * confidence.den]]

Annotate(top_results) ==
    [i \in DOMAIN top_results |->
        LET r == top_results[i]
            max_score == top_results[1].score
            confidence == IF max_score > 0 THEN Rat(r.score, max_score) ELSE Rat(0, 1)
        IN  [doc_id |-> r.doc_id, score |-> r.score, title |-> r.title,
             url |-> r.url, language |-> r.language,
             confidence |-> confidence,
             caution |-> 10 * confidence.num < 3 * confidence.den]]

\* what search returns (or raises) from the preprocessed query on, the set
\* candidate_docs being iterated in the order `order`
search_result(top_k, query_terms, order) ==
    LET scored_docs == SortByScore(KeepScored(order, query_terms))
    IN  IF query_terms = <<>>
        THEN [status |-> "ok", results |-> <<>>, total_results |-> 0]
        ELSE IF \E i \in DOMAIN order :
                   compute_bm25_score(query_terms, order[i]).error
        THEN [status |-> "ZeroDivisionError"]
        ELSE [status |-> "ok", query_terms |-> query_terms,
              results |-> Annotate(TopK(scored_docs, top_k)),
              total_results |-> Len(scored_docs)]

\* search from the preprocessed query on
search_terms(query, top_k, language, query_terms, order) ==
        /\ order \in Orders(IF query_terms = <<>> THEN {} ELSE CandidateDocs(query_terms))
        /\ result' = search_result(top_k, query_terms, order)
        /\ call' = [op |-> "search", query |-> query, top_k |-> top_k,
                    language |-> language, query_terms |-> query_terms,
                    order |-> order]
        /\ index' = AfterGet(index, Range(query_terms), <<>>)
        /\ term_doc_freq' = AfterGet(term_doc_freq, Range(query_terms), 0)
        /\ UNCHANGED <<doc_lengths, doc_count, avg_doc_length, documents, added,
                       seen_terms, finalized, retriever_vars, file_vars>>

\* search on a retriever without index: the ValueError of the first statement
search_not_loaded(query, top_k, language) ==
    /\ result' = [status |-> "ValueError"]
    /\ call' = [op |-> "search", query |-> query, top_k |-> top_k,
                language |-> language]
    /\ UNCHANGED <<index, doc_lengths, doc_count, avg_doc_length, term_doc_freq,
                   documents, added, seen_terms, finalized, retriever_vars,
                   file_vars>>

search(query, top_k, language, order) ==
    IF IndexMissing(loaded) THEN search_not_loaded(query, top_k, language)
    ELSE search_terms(query, top_k, language, preprocess(query, language), order)

\* load_index(index_path): self.index = InvertedIndex.load(index_path); the
\* index of the model becomes the loaded one, with the history it had at save
load_index ==
    IF blob.exists
    THEN LET fields == LoadFields(blob.data)
         IN  /\ index' = fields.index
             /\ doc_lengths' = fields.doc_lengths
             /\ doc_count' = fields.doc_count
             /\ avg_doc_length' = fields.avg_doc_length
             /\ term_doc_freq' = fields.term_doc_freq
             /\ documents' = fields.documents
             /\ added' = saved.history.added
             /\ seen_terms' = saved.history.seen_terms
             /\ finalized' = saved.history.finalized
             /\ loaded' = TRUE
             /\ UNCHANGED <<k1, b, file_vars>>
             /\ call' = [op |-> "load_index"]
             /\ result' = NoResult
    ELSE /\ result' = [status |-> "FileNotFoundError"]
         /\ call' = [op |-> "load_index"]
         /\ UNCHANGED <<index, doc_lengths, doc_count, avg_doc_length, term_doc_freq,
                        documents, added, seen_terms, finalized, retriever_vars,
                        file_vars>>

----------------------------------------------------------------------------
(* The inputs of the calls *)

\* the words "car", "bus", "ox" and "the", and the text of words w1 w2 ...
car == <<99, 97, 114>>
bus == <<98, 117, 115>>
ox == <<111, 120>>
the == <<116, 104, 101>>
Space == <<32>>

DocIds == {"en_0", "en_1"}
Terms == {car, bus}
Metadatas == {[title |-> "First", url |-> "http://a", language |-> "en"],
              [title |-> "Second", url |-> "http://b", language |-> "bn"]}

SearchDocIds == {"en_0", "en_1", "bn_0"}
SearchTokenLists == {<<>>, <<car>>, <<bus>>, <<car, bus>>, <<bus, car, car>>}
MetadataOf(doc_id) ==
    [title |-> doc_id, url |-> doc_id,
     language |-> IF doc_id = "bn_0" THEN "bn" ELSE "en"]

\* <<query, language>>: "car", "car bus", "Bus  car?", "the car", "the", "ox",
\* "car car bus", and "car" taken as Bangla
SearchInputs == {
    <<car, "auto">>,
    <<car \o Space \o bus, "auto">>,
    <<<<66, 117, 115>> \o Space \o Space \o car \o <<63>>, "en">>,
    <<the \o Space \o car, "auto">>,
    <<the, "auto">>,
    <<ox, "auto">>,
    <<car \o Space \o car \o Space \o bus, "en">>,
    <<car, "bn">>
    }
TopKs == 0..MaxTopK

\* the terms looked up: those of the documents, those indexed and an unknown one
LookupTerms == Terms \cup DOMAIN index \cup DOMAIN term_doc_freq \cup {ox}

\* the query term lists of the compute_bm25_score calls
ScoreQueries == {<<car>>, <<bus, car>>, <<ox>>, <<ox, bus>>}

\* <<k1, b>> of BM25Retriever(k1=..., b=...): the defaults, k1 = 0, b = 0, and
\* k1 = 2 with b = 1
RetrieverParams == {
    <<DefaultK1, DefaultB>>,
    <<Rat(0, 1), DefaultB>>,
    <<DefaultK1, Rat(0, 1)>>,
    <<Rat(2, 1), Rat(1, 1)>>
    }

\* k1, b and avg_doc_length of the term contributions of SpecScore
ScoreK1s == {Rat(0, 1), Rat(1, 2), DefaultK1, Rat(2, 1)}
ScoreBs == {Rat(0, 1), DefaultB, Rat(1, 1)}
ScoreAvgs == {Rat(1, 1), Rat(3, 2), Rat(2, 1), Rat(5, 1)}

\* the arguments of one term's contribution: N documents, df of them with the
\* term, tf occurrences in a document of length doc_length
ScoreArgs ==
    {[op |-> "args", N |-> N, df |-> df, tf |-> tf, doc_length |-> dl, avg |-> avg] :
        N \in 1..MaxN, df \in 0..MaxN, tf \in 0..MaxTf, dl \in 1..MaxLength,
        avg \in ScoreAvgs}

\* the token lists of the documents of SpecLookup
LookupTokenLists == {<<>>, <<car>>, <<bus>>, <<car, bus>>, <<bus, bus>>}

\* the token lists of the documents of SpecRetriever
RetrieverTokenLists == {<<car>>, <<bus>>, <<car, bus>>}

\* the inputs of the searches of SpecRetriever
RetrieverInputs == {
    <<car, "auto">>,
    <<car \o Space \o bus, "auto">>,
    <<the, "auto">>,
    <<ox, "auto">>
    }

----------------------------------------------------------------------------
(* Specifications *)

\* InvertedIndex.__init__, no file written
FreshIndex ==
    /\ index = [t \in {} |-> <<>>]
    /\ doc_lengths = [d \in {} |-> 0]
    /\ doc_count = 0
    /\ avg_doc_length = Rat(0, 1)
    /\ term_doc_freq = [t \in {} |-> 0]
    /\ documents = [d \in {} |-> 0]
    /\ added = <<>>
    /\ seen_terms = {}
    /\ finalized = FALSE
    /\ call = [op |-> "init"]
    /\ result = NoResult
    /\ blob = NoFile
    /\ saved = NoFile

\* BM25Retriever(): k1 and b have their default values
DefaultParams == k1 = DefaultK1 /\ b = DefaultB

\* a fresh index and BM25Retriever(): no index_path, self.index is None
Init == FreshIndex /\ DefaultParams /\ loaded = FALSE

\* a fresh index that is the index of the retriever
InitSearch == FreshIndex /\ DefaultParams /\ loaded = TRUE

AddDocument ==
    /\ doc_count < MaxDocs
    /\ \E doc_id \in DocIds, tokens \in SeqsUpTo(Terms, MaxTokens),
          metadata \in Metadatas :
            add_document(doc_id, tokens, metadata)

Finalize == finalize

\* a get_postings(term) call
GetPostings ==
    \E term \in LookupTerms :
        /\ result' = [status |-> "ok", value |-> get_postings(term)]
        /\ call' = [op |-> "get_postings", term |-> term]
        /\ index' = AfterGet(index, {term}, <<>>)
        /\ UNCHANGED <<doc_lengths, doc_count, avg_doc_length, term_doc_freq,
                       documents, added, seen_terms, finalized, retriever_vars,
                       file_vars>>

\* a get_document_frequency(term) call
GetDocumentFrequency ==
    \E term \in LookupTerms :
        /\ result' = [status |-> "ok", value |-> get_document_frequency(term)]
        /\ call' = [op |-> "get_document_frequency", term |-> term]
        /\ term_doc_freq' = AfterGet(term_doc_freq, {term}, 0)
        /\ UNCHANGED <<index, doc_lengths, doc_count, avg_doc_length, documents,
                       added, seen_terms, finalized, retriever_vars, file_vars>>

\* building an index: any sequence of add_document and finalize calls
Next == AddDocument \/ Finalize

Spec == Init /\ [][Next]_vars

SearchAddDocument ==
    /\ doc_count < MaxSearchDocs
    /\ \E doc_id \in SearchDocIds, tokens \in SearchTokenLists :
            add_document(doc_id, tokens, MetadataOf(doc_id))

\* self.preprocessor.preprocess(query, language) of each input, computed once
QueryTerms == [input \in SearchInputs |-> preprocess(input[1], input[2])]

Search ==
    \E input \in SearchInputs, top_k \in TopKs :
        \E order \in Orders(IF QueryTerms[input] = <<>> THEN {}
                            ELSE CandidateDocs(QueryTerms[input])) :
            search_terms(input[1], top_k, input[2], QueryTerms[input], order)

\* building an index and searching it, in any order
NextSearch == SearchAddDocument \/ Finalize \/ Search

SpecSearch == InitSearch /\ [][NextSearch]_vars

LookupAddDocument ==
    /\ doc_count < MaxLookupDocs
    /\ \E doc_id \in DocIds, tokens \in LookupTokenLists, metadata \in Metadatas :
            add_document(doc_id, tokens, metadata)

\* building an index and looking terms up: any sequence of add_document,
\* finalize, get_postings and get_document_frequency calls
NextLookup == LookupAddDocument \/ Finalize \/ GetPostings \/ GetDocumentFrequency

SpecLookup == Init /\ [][NextLookup]_vars

\* a compute_idf(term) call: without index it returns 0.0 at once, else it
\* calls get_document_frequency(term)
ComputeIdf ==
    \E term \in LookupTerms :
        /\ result' = [status |-> "ok", value |-> compute_idf(term)]
        /\ call' = [op |-> "compute_idf", term |-> term]
        /\ term_doc_freq' = IF IndexMissing(loaded) THEN term_doc_freq
                            ELSE AfterGet(term_doc_freq, {term}, 0)
        /\ UNCHANGED <<index, doc_lengths, doc_count, avg_doc_length, documents,
                       added, seen_terms, finalized, retriever_vars, file_vars>>

\* a compute_bm25_score(query_terms, doc_id) call: without index or for a
\* document of length 0 it returns 0.0 at once, else it looks every term up
ComputeScore ==
    \E query_terms \in ScoreQueries, doc_id \in SearchDocIds :
        LET score == compute_bm25_score(query_terms, doc_id)
            looked_up == IF IndexMissing(loaded) \/ Get(doc_lengths, doc_id, 0) = 0
                         THEN {} ELSE Range(query_terms)
        IN  /\ result' = IF score.error THEN [status |-> "ZeroDivisionError"]
                         ELSE [status |-> "ok", value |-> score.score]
            /\ call' = [op |-> "compute_bm25_score", query_terms |-> query_terms,
                        doc_id |-> doc_id]
            /\ index' = AfterGet(index, looked_up, <<>>)
            /\ term_doc_freq' = AfterGet(term_doc_freq, looked_up, 0)
            /\ UNCHANGED <<doc_lengths, doc_count, avg_doc_length, documents, added,
                           seen_terms, finalized, retriever_vars, file_vars>>

\* a search(query, top_k, language) call on a retriever with or without index
RetrieverSearch ==
    \E input \in RetrieverInputs, top_k \in TopKs :
        IF IndexMissing(loaded) THEN search_not_loaded(input[1], top_k, input[2])
        ELSE \E order \in Orders(IF QueryTerms[input] = <<>> THEN {}
                                 ELSE CandidateDocs(QueryTerms[input])) :
                search_terms(input[1], top_k, input[2], QueryTerms[input], order)

RetrieverAddDocument ==
    /\ doc_count < MaxRetrieverDocs
    /\ \E doc_id \in DocIds, tokens \in RetrieverTokenLists :
            add_document(doc_id, tokens, MetadataOf(doc_id))

\* BM25Retriever() beside a fresh index, or with that index as its own
InitRetriever == FreshIndex /\ DefaultParams /\ loaded \in BOOLEAN

\* every operation of the index and of the retriever, in any order
NextRetriever ==
    \/ RetrieverAddDocument
    \/ Finalize
    \/ GetPostings
    \/ GetDocumentFrequency
    \/ ComputeIdf
    \/ ComputeScore
    \/ RetrieverSearch

SpecRetriever == InitRetriever /\ [][NextRetriever]_vars

\* BM25Retriever(k1=..., b=...) with a fresh index as its index
InitCompute ==
    /\ FreshIndex
    /\ loaded = TRUE
    /\ \E params \in RetrieverParams : k1 = params[1] /\ b = params[2]

\* building an index and computing IDFs and scores on it, in any order
NextCompute == SearchAddDocument \/ Finalize \/ ComputeIdf \/ ComputeScore

SpecCompute == InitCompute /\ [][NextCompute]_vars

\* a retriever with some k1 and b, and the arguments of a term contribution
InitScore ==
    /\ index = [t \in {} |-> <<>>]
    /\ doc_lengths = [d \in {} |-> 0]
    /\ doc_count = 0
    /\ avg_doc_length = Rat(0, 1)
    /\ term_doc_freq = [t \in {} |-> 0]
    /\ documents = [d \in {} |-> 0]
    /\ added = <<>>
    /\ seen_terms = {}
    /\ finalized = FALSE
    /\ blob = NoFile
    /\ saved = NoFile
    /\ loaded = TRUE
    /\ k1 \in ScoreK1s
    /\ b \in ScoreBs
    /\ call \in {args \in ScoreArgs : args.df <= args.N}
    /\ result = NoResult

\* the contribution of one query term to the score, computed from the arguments
ApplyTermContribution ==
    /\ call.op = "args"
    /\ call' = [call EXCEPT !.op = "term_contribution"]
    /\ result' = [status |-> "ok",
                  value |-> TermContribution(Idf(call.N, call.df), call.tf,
                                             call.doc_length, call.avg)]
    /\ UNCHANGED <<index, doc_lengths, doc_count, avg_doc_length, term_doc_freq,
                   documents, added, seen_terms, finalized, retriever_vars,
                   file_vars>>

NextScore == ApplyTermContribution

SpecScore == InitScore /\ [][NextScore]_vars

Save == save

LoadIndex == load_index

\* building an index, saving it and loading the file into the retriever
NextPersist == SearchAddDocument \/ Finalize \/ Save \/ LoadIndex

SpecPersist == Init /\ [][NextPersist]_vars

----------------------------------------------------------------------------
(* Properties of the InvertedIndex, checked under Spec *)

\* the doc_ids of a term's posting list
PostingIds(term) == {get_postings(term)[j][1] : j \in 1..Len(get_postings(term))}

\* the doc_ids of the add_document calls made so far are pairwise distinct
DistinctIds == \A i, j \in 1..Len(added) : i # j => added[i] # added[j]

\* sum(self.doc_lengths.values())
TotalLength == SumOver(doc_lengths, DOMAIN doc_lengths)

\* C1: in every state reached by add_document and finalize calls on a fresh index,
\* every doc_id of every posting list has an entry in doc_lengths and in documents.
C1_PostingsHaveLengthAndMetadata ==
    \A t \in DOMAIN index : \A j \in 1..Len(index[t]) :
        /\ index[t][j][1] \in DOMAIN doc_lengths
        /\ index[t][j][1] \in DOMAIN documents

\* two documents with different doc_ids are in the postings
C1_Witness ==
    /\ call.op = "finalize"
    /\ Cardinality(UNION {PostingIds(t) : t \in DOMAIN index}) = 2

\* C2: after add_document calls of pairwise distinct doc_ids and then finalize,
\* get_document_frequency(term) is the number of distinct doc_ids of
\* get_postings(term), for every term.
C2_DocFreqCountsPostingIds ==
    (DistinctIds /\ call.op = "finalize") =>
        \A t \in LookupTerms :
            get_document_frequency(t) = Cardinality(PostingIds(t))

\* a term that two documents hold, one of them twice
C2_Witness ==
    /\ DistinctIds
    /\ call.op = "finalize"
    /\ \E t \in DOMAIN index :
          /\ get_document_frequency(t) = 2
          /\ \E j \in 1..Len(index[t]) : index[t][j][2] = 2

\* C3: one add_document(doc_id, tokens, metadata) call appends the posting
\* <<doc_id, f>> at the end of the posting list of each distinct term of tokens,
\* f being the term's occurrences in tokens; adds 1 to that term's document
\* frequency; sets doc_lengths[doc_id] to len(tokens); stores the metadata;
\* adds 1 to doc_count; and changes no other term's posting list or counter.
C3_AddDocumentEffect ==
    [][call'.op = "add_document" =>
        LET d == call'.doc_id
            toks == call'.tokens
            occurrences(t) == Cardinality({i \in 1..Len(toks) : toks[i] = t})
            others == (LookupTerms \cup DOMAIN index' \cup DOMAIN term_doc_freq')
                      \ Range(toks)
        IN  /\ \A t \in Range(toks) :
                 /\ Get(index', t, <<>>)
                      = Append(Get(index, t, <<>>), <<d, occurrences(t)>>)
                 /\ Get(term_doc_freq', t, 0) = Get(term_doc_freq, t, 0) + 1
            /\ doc_lengths'[d] = Len(toks)
            /\ documents'[d] = call'.metadata
            /\ doc_count' = doc_count + 1
            /\ \A t \in others :
                 /\ Get(index', t, <<>>) = Get(index, t, <<>>)
                 /\ Get(term_doc_freq', t, 0) = Get(term_doc_freq, t, 0)
            /\ DOMAIN index' = DOMAIN index \cup Range(toks)
            /\ DOMAIN term_doc_freq' = DOMAIN term_doc_freq \cup Range(toks)
    ]_vars

\* a call whose tokens repeat a term that already had a posting
C3_Witness ==
    /\ call.op = "add_document"
    /\ \E t \in Range(call.tokens) :
          /\ Len(index[t]) = 2
          /\ index[t][2] = <<call.doc_id, 2>>
          /\ term_doc_freq[t] = 2

\* C4 as stated: after finalize, avg_doc_length is the sum of the recorded lengths
\* over doc_count, that is the arithmetic mean of the recorded lengths; and 0 when
\* doc_count is 0.
C4_AvgIsMeanOfRecorded ==
    call.op = "finalize" =>
        IF doc_count = 0 THEN avg_doc_length.num = 0
        ELSE /\ avg_doc_length.num * doc_count = avg_doc_length.den * TotalLength
             /\ avg_doc_length.num * Cardinality(DOMAIN doc_lengths)
                  = avg_doc_length.den * TotalLength

\* C4 amended: after finalize, avg_doc_length is the sum of the recorded lengths
\* over doc_count, and 0 when doc_count is 0; it is the arithmetic mean of the
\* recorded lengths when the doc_ids of the add_document calls are pairwise distinct.
C4_AvgIsTotalOverCount ==
    call.op = "finalize" =>
        IF doc_count = 0 THEN avg_doc_length.num = 0
        ELSE /\ avg_doc_length.num * doc_count = avg_doc_length.den * TotalLength
             /\ DistinctIds =>
                  avg_doc_length.num * Cardinality(DOMAIN doc_lengths)
                    = avg_doc_length.den * TotalLength

\* two documents of lengths 1 and 2: the average is 3/2
C4_Witness ==
    /\ call.op = "finalize"
    /\ DistinctIds
    /\ doc_count = 2
    /\ avg_doc_length = [num |-> 3, den |-> 2]

----------------------------------------------------------------------------
(* Properties of BM25Retriever.search, checked under SpecSearch *)

\* the last call was a search that returned a result list
Returned == call.op = "search" /\ result.status = "ok"

\* the doc_ids of the returned results
ReturnedIds == {result.results[i].doc_id : i \in 1..Len(result.results)}

\* the documents compute_bm25_score was called on by the last search
ScoredIds == Range(call.order)

\* the documents that hold at least one of the preprocessed query terms
MatchingIds == UNION {PostingIds(call.query_terms[i]) : i \in 1..Len(call.query_terms)}

\* the score the index gives a document for the last query
ScoreOf(d) == compute_bm25_score(call.query_terms, d).score

\* the candidates of positive score of the last search
PositiveIds == {d \in ScoredIds : ScoreOf(d) > 0}

\* the position of the first add_document call of a doc_id
FirstAdded(d) == CHOOSE i \in 1..Len(added) :
                    added[i] = d /\ \A j \in 1..Len(added) : added[j] = d => i <= j

\* C5: search never returns, and never scores, a document that is in the posting
\* list of none of the preprocessed query terms.
C5_OnlyMatchingDocuments ==
    call.op = "search" =>
        /\ ScoredIds \subseteq MatchingIds
        /\ result.status = "ok" => ReturnedIds \subseteq MatchingIds

\* a search that returns a document while the index holds a non-empty document
\* without any of the query terms
C5_Witness ==
    /\ Returned
    /\ Len(result.results) >= 1
    /\ \E d \in DOMAIN doc_lengths : doc_lengths[d] > 0 /\ d \notin MatchingIds

\* C6: every result of search has score > 0 and the results are in the order of
\* non-increasing score.
C6_PositiveAndDescending ==
    Returned =>
        /\ \A i \in 1..Len(result.results) : result.results[i].score > 0
        /\ \A i \in 1..(Len(result.results) - 1) :
              result.results[i].score >= result.results[i + 1].score

\* two results of different scores
C6_Witness ==
    /\ Returned
    /\ Len(result.results) = 2
    /\ result.results[1].score > result.results[2].score

\* C7: two results of equal score are returned in the order in which their
\* documents were added to the index.
C7_TiesInInsertionOrder ==
    (Returned /\ DistinctIds) =>
        \A i, j \in 1..Len(result.results) :
            (i < j /\ result.results[i].score = result.results[j].score) =>
                FirstAdded(result.results[i].doc_id)
                    < FirstAdded(result.results[j].doc_id)

\* C8: for top_k >= 0 search returns min(top_k, total_results) results, no
\* candidate left out scores strictly higher than a returned one, and
\* total_results is the number of candidates of positive score.
C8_TopKOfPositiveCandidates ==
    Returned =>
        /\ Len(result.results) = Min(call.top_k, result.total_results)
        /\ result.total_results = Cardinality(PositiveIds)
        /\ ReturnedIds \subseteq PositiveIds
        /\ Cardinality(ReturnedIds) = Len(result.results)
        /\ \A d \in PositiveIds \ ReturnedIds :
              \A i \in 1..Len(result.results) : ScoreOf(d) <= result.results[i].score
        /\ \A i \in 1..Len(result.results) :
              result.results[i].score = ScoreOf(result.results[i].doc_id)

\* a search of top_k = 1 that leaves out a candidate of lower positive score
C8_Witness ==
    /\ Returned
    /\ call.top_k = 1
    /\ result.total_results = 2
    /\ \E d \in PositiveIds \ ReturnedIds : ScoreOf(d) < result.results[1].score

\* the largest score among the returned results
MaxReturnedScore ==
    CHOOSE m \in {result.results[i].score : i \in 1..Len(result.results)} :
        \A i \in 1..Len(result.results) : result.results[i].score <= m

\* C9: in a non-empty result list each confidence is the result's score over the
\* largest returned score, so the first confidence is 1 and all are in (0, 1];
\* caution is true exactly when confidence < 0.3; and a result flagged caution
\* is returned all the same.
C9_ConfidenceAndCaution ==
    (Returned /\ Len(result.results) > 0) =>
        /\ \A i \in 1..Len(result.results) :
              LET r == result.results[i] IN
              /\ r.confidence.num * MaxReturnedScore = r.confidence.den * r.score
              /\ 0 < r.confidence.num /\ r.confidence.num <= r.confidence.den
              /\ r.caution <=> (10 * r.confidence.num < 3 * r.confidence.den)
        /\ result.results[1].confidence = [num |-> 1, den |-> 1]
        /\ Len(result.results) = Min(call.top_k, Cardinality(PositiveIds))

\* a returned result that is flagged caution
C9_Witness ==
    /\ Returned
    /\ Len(result.results) = 2
    /\ ~result.results[1].caution
    /\ result.results[2].caution

\* C10: search on an index that is unfinalized (documents added, finalize never
\* called) or empty returns an empty result list with total_results = 0 and raises
\* no error, for every query.
C10_UnfinalizedSearchIsEmpty ==
    (call.op = "search" /\ (doc_count = 0 \/ ~finalized)) =>
        /\ result.status = "ok"
        /\ result.results = <<>>
        /\ result.total_results = 0

----------------------------------------------------------------------------
(* Claims on the retriever without index, on terms never added and on the  *)
(* calls that only read: C11 and C13 under SpecRetriever, C12 under         *)
(* SpecLookup                                                              *)

\* C11: search on a BM25Retriever that has no index (built without index_path,
\* load_index never called) raises ValueError before the query is preprocessed
\* or any document scored, and returns no result.
C11_SearchWithoutIndexFails ==
    (call.op = "search" /\ ~loaded) =>
        /\ result.status = "ValueError"
        /\ "query_terms" \notin DOMAIN call
        /\ "order" \notin DOMAIN call
        /\ "results" \notin DOMAIN result

\* a search of a non-empty query on a retriever without index, while an index
\* holding a document of the query's term has been built and finalized
C11_Witness ==
    /\ call.op = "search"
    /\ ~loaded
    /\ call.query = car
    /\ finalized
    /\ get_postings(car) # <<>>

\* C12: in every state of an index, before or after finalize, a term that no
\* add_document call has held has the empty posting list and document
\* frequency 0, and get_postings and get_document_frequency return these
\* values without raising.
C12_UnknownTermLookups ==
    /\ \A t \in LookupTerms \ seen_terms :
          /\ get_postings(t) = <<>>
          /\ get_document_frequency(t) = 0
    /\ (call.op = "get_postings" /\ call.term \notin seen_terms) =>
          result = [status |-> "ok", value |-> <<>>]
    /\ (call.op = "get_document_frequency" /\ call.term \notin seen_terms) =>
          result = [status |-> "ok", value |-> 0]

\* get_document_frequency of a term never added, on an index that holds
\* another term and has not been finalized
C12_Witness ==
    /\ call.op = "get_document_frequency"
    /\ call.term \notin seen_terms
    /\ seen_terms # {}
    /\ ~finalized

\* the calls that only read the index
ReadOps == {"get_postings", "get_document_frequency", "compute_idf",
            "compute_bm25_score", "search"}

----------------------------------------------------------------------------
(* Claims on the index before finalize and on what later calls keep:       *)
(* SpecLookup                                                              *)

\* the lookups reflect the add_document calls made so far: the documents of
\* the postings have a length and metadata, the recorded documents are those
\* added, a term has postings exactly when a call held it, and its document
\* frequency is the number of calls that held it
ReflectsAdded ==
    /\ C1_PostingsHaveLengthAndMetadata
    /\ DOMAIN doc_lengths = Range(added)
    /\ DOMAIN documents = Range(added)
    /\ doc_count = Len(added)
    /\ \A t \in LookupTerms :
          /\ PostingIds(t) \subseteq Range(added)
          /\ (t \in seen_terms) <=> (get_postings(t) # <<>>)
          /\ get_document_frequency(t) = Len(get_postings(t))

\* C14 as stated: before finalize has run, the lookups reflect the documents
\* added so far, the document frequency of every term is the number of
\* distinct doc_ids of its posting list, and avg_doc_length is 0.
C14_ConsistentBeforeFinalize ==
    ~finalized =>
        /\ ReflectsAdded
        /\ \A t \in LookupTerms :
              get_document_frequency(t) = Cardinality(PostingIds(t))
        /\ avg_doc_length = Rat(0, 1)

\* C14: before finalize has run, the lookups reflect the add_document calls
\* made so far, the document frequency of a term being the length of its
\* posting list, and the number of distinct doc_ids of it when the doc_ids of
\* the calls are pairwise distinct; avg_doc_length is 0; and finalize changes
\* no field of the index but avg_doc_length.
C14_BeforeFinalize ==
    /\ [](~finalized =>
            /\ ReflectsAdded
            /\ DistinctIds =>
                  \A t \in LookupTerms :
                      get_document_frequency(t) = Cardinality(PostingIds(t))
            /\ avg_doc_length = Rat(0, 1))
    /\ [][call'.op = "finalize" =>
            UNCHANGED <<index, doc_lengths, doc_count, term_doc_freq, documents>>
       ]_vars

\* a lookup before finalize that returns the document frequency 2 of a term
\* held by two documents of different doc_ids and lengths
C14_Witness ==
    /\ ~finalized
    /\ call.op = "get_document_frequency"
    /\ result.value = 2
    /\ DistinctIds
    /\ Cardinality({doc_lengths[d] : d \in DOMAIN doc_lengths}) = 2

\* C16 as stated: no step changes the recorded length or the metadata of a
\* document that is in the index, whatever the doc_id of an add_document call.
C16_RecordsNeverChange ==
    [][\A d \in DOMAIN doc_lengths :
          /\ d \in DOMAIN doc_lengths' /\ doc_lengths'[d] = doc_lengths[d]
          /\ d \in DOMAIN documents' /\ documents'[d] = documents[d]
    ]_vars

\* C16: a step changes the recorded length or the metadata of a document that
\* is in the index only if it is an add_document call with that document's
\* doc_id, which sets them to the length of its tokens and to its metadata.
C16_RecordsChangeOnlyOnSameId ==
    [][\A d \in DOMAIN doc_lengths :
          /\ d \in DOMAIN doc_lengths' /\ d \in DOMAIN documents'
          /\ IF call'.op = "add_document" /\ call'.doc_id = d
             THEN /\ doc_lengths'[d] = Len(call'.tokens)
                  /\ documents'[d] = call'.metadata
             ELSE /\ doc_lengths'[d] = doc_lengths[d]
                  /\ documents'[d] = documents[d]
    ]_vars

\* a lookup on a finalized index of two documents of different doc_ids,
\* lengths and metadata
C16_Witness ==
    /\ call.op = "get_postings"
    /\ finalized
    /\ Len(added) = 2
    /\ DistinctIds
    /\ doc_lengths[added[1]] # doc_lengths[added[2]]
    /\ documents[added[1]] # documents[added[2]]

----------------------------------------------------------------------------
(* Claims on what the calls keep: SpecRetriever *)

\* s is a prefix of t
IsPrefix(s, t) == Len(s) <= Len(t) /\ \A i \in 1..Len(s) : s[i] = t[i]

\* s[i..] can be read in t[j..] from left to right, skipping elements of t
RECURSIVE IsSubseqFrom(_, _, _, _)
IsSubseqFrom(s, i, t, j) ==
    IF i > Len(s) THEN TRUE
    ELSE IF j > Len(t) THEN FALSE
    ELSE IF s[i] = t[j] THEN IsSubseqFrom(s, i + 1, t, j + 1)
    ELSE IsSubseqFrom(s, i, t, j + 1)

\* the doc_ids of the posting list of term, in list order
PostingIdSeq(term) == [i \in 1..Len(get_postings(term)) |-> get_postings(term)[i][1]]

\* C15: no step of add_document, finalize, a lookup or a search removes a
\* doc_id from doc_lengths or documents or a term from the index, and each
\* posting list before the step is a prefix of the list after it; so the
\* doc_ids of every posting list are in the order of the add_document calls.
C15_OnlyGrowsByAppending ==
    /\ [][/\ DOMAIN doc_lengths \subseteq DOMAIN doc_lengths'
          /\ DOMAIN documents \subseteq DOMAIN documents'
          /\ \A t \in DOMAIN index :
                /\ t \in DOMAIN index'
                /\ IsPrefix(index[t], index'[t])
       ]_vars
    /\ [](\A t \in DOMAIN index : IsSubseqFrom(PostingIdSeq(t), 1, added, 1))

\* after a search, a posting list of two documents in the order of their
\* add_document calls, and a term held by the second document only
C15_Witness ==
    /\ call.op = "search"
    /\ loaded
    /\ \E t \in DOMAIN index :
          /\ Len(index[t]) = 2
          /\ index[t][1][1] # index[t][2][1]
          /\ index[t][1][1] = added[1]
          /\ \E u \in DOMAIN index : Len(index[u]) = 1 /\ index[u][1][1] = added[2]

----------------------------------------------------------------------------
(* Claim on save and load: SpecPersist *)

----------------------------------------------------------------------------
(* Claims on IDF and score: SpecCompute *)

\* the index is finalized: finalize has run and avg_doc_length is what it
\* computes from the index as it is now
IsFinalized ==
    /\ finalized
    /\ doc_count > 0 => avg_doc_length = MeanLength(doc_lengths, doc_count)

\* C18: on a finalized index, compute_bm25_score(query_terms, doc_id) returns
\* 0 when no query term has a posting of doc_id (the term is not in the index
\* or its posting list does not name the document).
C18_ScoreZeroWithoutQueryTerm ==
    (/\ call.op = "compute_bm25_score"
     /\ IsFinalized
     /\ \A i \in 1..Len(call.query_terms) :
           call.doc_id \notin PostingIds(call.query_terms[i])) =>
        result = [status |-> "ok", value |-> 0]

\* the score 0 of a document of the index that holds a term, for a query
\* whose terms are one no document holds and one that another document holds
C18_Witness ==
    /\ call.op = "compute_bm25_score"
    /\ IsFinalized
    /\ call.query_terms = <<ox, bus>>
    /\ get_postings(bus) # <<>>
    /\ call.doc_id \notin PostingIds(bus)
    /\ Get(doc_lengths, call.doc_id, 0) > 0
    /\ result = [status |-> "ok", value |-> 0]

----------------------------------------------------------------------------
(* Claim on the score formula: SpecScore *)

\* C20: with N, df, the document length, the average length, k1 and b fixed,
\* a larger term frequency of a query term in a document never gives a smaller
\* contribution of that term to the document's score, the other terms'
\* contributions staying as they are.
C20_ScoreMonotoneInTf ==
    call.op = "term_contribution" =>
        \A tf \in call.tf..(MaxTf + 1) :
            result.value <= TermContribution(Idf(call.N, call.df), tf,
                                             call.doc_length, call.avg)

\* a positive contribution that a larger term frequency makes strictly larger,
\* with b = 1 and a document longer than the average
C20_Witness ==
    /\ call.op = "term_contribution"
    /\ b = Rat(1, 1)
    /\ call.doc_length * call.avg.den > call.avg.num
    /\ result.value > 0
    /\ result.value < TermContribution(Idf(call.N, call.df), call.tf + 1,
                                       call.doc_length, call.avg)

----------------------------------------------------------------------------
(* A corpus of two English documents and searches on it *)

\* "cheap car deals in dhaka"
BodyA ==
    <<99, 104, 101, 97, 112, 32, 99, 97, 114, 32, 100, 101, 97, 108, 115,
    32, 105, 110, 32, 100, 104, 97, 107, 97>>

\* "expensive car dealership in chittagong"
BodyB ==
    <<101, 120, 112, 101, 110, 115, 105, 118, 101, 32, 99, 97, 114, 32, 100,
    101, 97, 108, 101, 114, 115, 104, 105, 112, 32, 105, 110, 32, 99, 104,
    105, 116, 116, 97, 103, 111, 110, 103>>

\* "cheap car"
CheapCar ==
    <<99, 104, 101, 97, 112, 32, 99, 97, 114>>

\* "the is of"
TheIsOf ==
    <<116, 104, 101, 32, 105, 115, 32, 111, 102>>

\* "The  IS a x 7"
TheIsAX ==
    <<84, 104, 101, 32, 32, 73, 83, 32, 97, 32, 120, 32, 55>>

\* "expensive dealership"
ExpensiveDealership ==
    <<101, 120, 112, 101, 110, 115, 105, 118, 101, 32, 100, 101, 97, 108,
    101, 114, 115, 104, 105, 112>>

\* two Bangla stopwords, U+098F U+09AC U+0982 and U+09AC U+09BE, with a space between
EbongBa ==
    <<2447, 2476, 2434, 32, 2476, 2494>>

\* "the" and the Bangla stopword U+098F U+09AC U+0982
TheEbong ==
    <<116, 104, 101, 32, 2447, 2476, 2434>>

\* f"{language}_{i}" of build_index_from_documents
DocIdOf(language, i) ==
    IF language = "bn" THEN <<"bn_0", "bn_1", "bn_2", "bn_3">>[i + 1]
    ELSE <<"en_0", "en_1", "en_2", "en_3">>[i + 1]

\* the documents A and B, without title
ExampleDocs == {
    [title |-> <<>>, body |-> BodyA, url |-> "http://a"],
    [title |-> <<>>, body |-> BodyB, url |-> "http://b"]
    }

\* f"{doc.get('title', '')} {doc.get('body', '')}"
DocText(doc) == doc.title \o Space \o doc.body

\* preprocessor.preprocess(text, language) of each document, computed once
ExampleTokens == [doc \in ExampleDocs |-> preprocess(DocText(doc), "en")]

\* <<query, language>> of the searches
ExampleInputs == {
    <<CheapCar, "auto">>,
    <<CheapCar, "en">>,
    <<ExpensiveDealership, "auto">>,
    <<TheIsOf, "auto">>,
    <<TheIsAX, "en">>,
    <<EbongBa, "auto">>,
    <<TheEbong, "auto">>,
    <<TheEbong, "bn">>
    }

ExampleQueryTerms == [input \in ExampleInputs |-> preprocess(input[1], input[2])]

\* one round of the loop of build_index_from_documents, on a document of the
\* corpus that is not yet in the index
ExampleAddDocument ==
    \E doc \in ExampleDocs :
        /\ \A d \in DOMAIN documents : documents[d].url # doc.url
        /\ add_document(DocIdOf("en", doc_count), ExampleTokens[doc],
                        [title |-> doc.title, url |-> doc.url, language |-> "en",
                         original_index |-> doc_count])

ExampleSearch ==
    \E input \in ExampleInputs, top_k \in TopKs :
        \E order \in Orders(IF ExampleQueryTerms[input] = <<>> THEN {}
                            ELSE CandidateDocs(ExampleQueryTerms[input])) :
            search_terms(input[1], top_k, input[2], ExampleQueryTerms[input], order)

\* indexing the corpus and searching it, in any order
NextExample == ExampleAddDocument \/ Finalize \/ ExampleSearch

SpecExample == InitSearch /\ [][NextExample]_vars

\* the doc_id of the document of the given url
IdOfUrl(url) == CHOOSE d \in DOMAIN documents : documents[d].url = url

\* C21: on the finalized index of the two documents A "cheap car deals in
\* dhaka" and B "expensive car dealership in chittagong", with k1 = 1.5 and
\* b = 0.75, the score of A for "cheap car" is strictly greater than that of B,
\* search("cheap car") returns A first with confidence 1 and B, when top_k
\* admits it, second with a smaller score.
C21_CheapCarRanksAFirst ==
    (/\ call.op = "search"
     /\ call.query = CheapCar
     /\ call.top_k >= 1
     /\ IsFinalized
     /\ doc_count = 2) =>
        LET a == IdOfUrl("http://a")
            b_id == IdOfUrl("http://b")
        IN  /\ compute_bm25_score(call.query_terms, a).score
                 > compute_bm25_score(call.query_terms, b_id).score
            /\ result.status = "ok"
            /\ result.total_results = 2
            /\ result.results[1].doc_id = a
            /\ result.results[1].confidence = Rat(1, 1)
            /\ call.top_k >= 2 =>
                  /\ result.results[2].doc_id = b_id
                  /\ result.results[1].score > result.results[2].score

\* the search for "cheap car" with top_k = 2 on the finalized corpus in which
\* B was indexed before A
C21_Witness ==
    /\ call.op = "search"
    /\ call.query = CheapCar
    /\ call.top_k = 2
    /\ IsFinalized
    /\ added = <<"en_0", "en_1">>
    /\ documents["en_0"].url = "http://b"
    /\ documents["en_1"].url = "http://a"
    /\ Len(result.results) = 2

\* the words of the text: its maximal runs of non-whitespace characters
Words(text) == Range(Split(text, 1))

\* every word of the text is, in lower case, a stopword of either language or
\* at most one character long
OnlyStopwords(text) ==
    \A w \in Words(text) :
        \/ Len(w) <= 1
        \/ Lower(w) \in english_stopwords \cup bangla_stopwords

\* C22: a query whose words are all stopwords or of length <= 1 preprocesses to
\* the empty term list, and search then returns the empty result list with
\* total_results = 0 without looking at the postings or scoring a document.
C22_StopwordQueryIsEmpty ==
    (call.op = "search" /\ OnlyStopwords(call.query)) =>
        /\ call.query_terms = <<>>
        /\ call.order = <<>>
        /\ result = [status |-> "ok", results |-> <<>>, total_results |-> 0]

\* the search for "the is of" on an index that holds both documents and has
\* not been finalized, where a query with a term fails
C22_Witness ==
    /\ call.op = "search"
    /\ call.query = TheIsOf
    /\ doc_count = 2
    /\ ~finalized
    /\ result.results = <<>>

----------------------------------------------------------------------------
(* preprocess as a function of its arguments *)

\* "Https"
Https == <<72, 116, 116, 112, 115>>

\* "x"
LetterX == <<120>>

\* "Isn't"
Isnt == <<73, 115, 110, 39, 116>>

\* the Bangla stopword U+098F U+09AC U+0982
Ebong == <<2447, 2476, 2434>>

\* the Bangla word U+0997 U+09BE U+09A1 U+09BC U+09BF
Gari == <<2455, 2494, 2465, 2492, 2495>>

\* "a@b.io"
EmailWord == <<97, 64, 98, 46, 105, 111>>

\* "http://x.io"
UrlWord == <<104, 116, 116, 112, 58, 47, 47, 120, 46, 105, 111>>

\* "bus", a tab, "ox"
BusTabOx == <<98, 117, 115, 9, 111, 120>>

\* "Car" followed by the Bangla word
CarGari == <<67, 97, 114, 2455, 2494, 2465, 2492, 2495>>

\* "http://" followed by the Bangla letter U+0997
UrlGa == <<104, 116, 116, 112, 58, 47, 47, 2455>>

\* the words of which the texts are made
PreprocessWords == {UrlGa, the, car, Https, LetterX, Isnt, Ebong,
                    Gari, EmailWord, UrlWord, BusTabOx, CarGari}

\* " ".join(words)
RECURSIVE Join(_)
Join(words) ==
    IF words = <<>> THEN <<>>
    ELSE IF Len(words) = 1 THEN words[1]
    ELSE words[1] \o Space \o Join(Tail(words))

\* the str values: up to MaxWords words joined by a space, and a space alone
PreprocessTexts == {Join(ws) : ws \in SeqsUpTo(PreprocessWords, MaxWords)} \cup {Space}

\* the values given to preprocess as text: str, None, int, list and bytes
PreprocessValues ==
    {[type |-> "str", value |-> text] : text \in PreprocessTexts}
    \cup {[type |-> "NoneType"],
          [type |-> "int", number |-> 0], [type |-> "int", number |-> 7],
          [type |-> "list", items |-> <<>>], [type |-> "list", items |-> <<car>>],
          [type |-> "bytes", octets |-> car]}

LanguageHints == {"auto", "en", "bn"}

\* bool(value)
Truthy(value) ==
    IF value.type = "NoneType" THEN FALSE
    ELSE IF value.type = "int" THEN value.number # 0
    ELSE IF value.type = "list" THEN Len(value.items) > 0
    ELSE IF value.type = "bytes" THEN Len(value.octets) > 0
    ELSE Len(value.value) > 0

\* the negation of `not text or not isinstance(text, str)`, without the
\* isinstance test
PassesGuardOfAnyType(value) == Truthy(value)

\* the negation of `not text or not isinstance(text, str)`
PassesGuard(value) == Truthy(value) /\ value.type = "str"

\* preprocess on any value: what it returns or raises; re.sub and re.search
\* raise TypeError on a value that is not a str
preprocess_value(value, language) ==
    IF ~PassesGuard(value) THEN [status |-> "ok", tokens |-> <<>>]
    ELSE IF value.type # "str" THEN [status |-> "TypeError"]
    ELSE [status |-> "ok", tokens |-> preprocess(value.value, language)]

\* the arguments of a preprocess call
PreprocessArgs ==
    {[op |-> "args", text |-> value, language |-> language] :
        value \in PreprocessValues, language \in LanguageHints}

\* preprocess of each pair of arguments, computed once
PreprocessOf ==
    [args \in PreprocessArgs |-> preprocess_value(args.text, args.language)]

\* the variables of the index, the file and the histories before any call
IdleIndex ==
    /\ index = [t \in {} |-> <<>>]
    /\ doc_lengths = [d \in {} |-> 0]
    /\ doc_count = 0
    /\ avg_doc_length = Rat(0, 1)
    /\ term_doc_freq = [t \in {} |-> 0]
    /\ documents = [d \in {} |-> 0]
    /\ added = <<>>
    /\ seen_terms = {}
    /\ finalized = FALSE
    /\ blob = NoFile
    /\ saved = NoFile

\* a preprocessor and the arguments of a call
InitPreprocess ==
    /\ IdleIndex
    /\ DefaultParams
    /\ loaded = FALSE
    /\ call \in PreprocessArgs
    /\ result = NoResult

\* the preprocess call on the arguments
ApplyPreprocess ==
    /\ call.op = "args"
    /\ call' = [call EXCEPT !.op = "preprocess"]
    /\ result' = PreprocessOf[call]
    /\ UNCHANGED <<index, doc_lengths, doc_count, avg_doc_length, term_doc_freq,
                   documents, added, seen_terms, finalized, retriever_vars,
                   file_vars>>

NextPreprocess == ApplyPreprocess

SpecPreprocess == InitPreprocess /\ [][NextPreprocess]_vars

\* preprocess has returned from a str
Preprocessed == call.op = "preprocess" /\ call.text.type = "str"

\* C23: for every text and language hint, preprocess of the space-joined
\* output of preprocess, with the same hint, is that output.
C23_PreprocessIdempotent ==
    Preprocessed =>
        preprocess(Join(result.tokens), call.language) = result.tokens

\* the text has a character of the Bangla block U+0980..U+09FF
HasBanglaChar(text) == \E i \in 1..Len(text) : text[i] \in 2432..2559

\* the branch a hint stands for on a text
ResolvedLanguage(text, language) ==
    IF language = "bn" \/ (language = "auto" /\ HasBanglaChar(text))
    THEN "bn" ELSE "en"

\* C24: with the hint "auto", preprocess of a text equals preprocess with
\* the hint "bn" when the text has a Bangla character and with the hint "en"
\* when it has none; tokenize filters by that script, and remove_stopwords
\* resolves to the same language on every non-empty token list and removes
\* the same tokens on every token list.
C24_AutoFollowsScript ==
    (Preprocessed /\ call.language = "auto") =>
        LET text == call.text.value
            resolved == IF HasBanglaChar(text) THEN "bn" ELSE "en"
            tokens == tokenize(text, "auto")
        IN  /\ result.tokens = preprocess(text, resolved)
            /\ tokens = tokenize(text, resolved)
            /\ tokens # <<>> => StopwordLanguage(tokens, "auto") = resolved
            /\ remove_stopwords(tokens, "auto") = remove_stopwords(tokens, resolved)

\* "auto" on a text of both scripts with a Bangla stopword: the Bangla word
\* alone is returned, which is not what the hint "en" returns
C24_Witness ==
    /\ Preprocessed
    /\ call.language = "auto"
    /\ HasBanglaChar(call.text.value)
    /\ \E i \in 1..Len(call.text.value) : call.text.value[i] \in 97..122
    /\ result.tokens = <<Gari>>
    /\ preprocess(call.text.value, "en") # result.tokens

\* the tokens are disjoint pieces of the text, from position pos on, in order
RECURSIVE InOrderFrom(_, _, _)
InOrderFrom(tokens, text, pos) ==
    IF tokens = <<>> THEN TRUE
    ELSE LET n == Len(tokens[1]) IN
         \E p \in pos..(Len(text) - n + 1) :
            /\ SubSeq(text, p, p + n - 1) = tokens[1]
            /\ InOrderFrom(Tail(tokens), text, p + n)

\* the text with A..Z replaced by a..z
Lowercased(text) ==
    [i \in 1..Len(text) |-> IF text[i] \in 65..90 THEN text[i] + 32 ELSE text[i]]

\* C25: every token preprocess returns has more than one character, has no
\* uppercase letter, is not a stopword of the resolved language and is made
\* of ASCII letters and digits (English) or Bangla-block characters (Bangla)
\* only; the tokens are pieces of the lowercased text in their order there.
C25_TokensAreClean ==
    Preprocessed =>
        LET text == call.text.value
            lang == ResolvedLanguage(text, call.language)
            tokens == result.tokens
        IN  /\ \A k \in 1..Len(tokens) :
                /\ Len(tokens[k]) > 1
                /\ \A i \in 1..Len(tokens[k]) :
                    /\ tokens[k][i] \notin 65..90
                    /\ IF lang = "bn"
                       THEN tokens[k][i] \in 2432..2559
                       ELSE tokens[k][i] \in (48..57) \cup (65..90) \cup (97..122)
                /\ tokens[k] \notin (IF lang = "bn" THEN bangla_stopwords
                                     ELSE english_stopwords)
            /\ InOrderFrom(tokens, Lowercased(text), 1)

\* a text with an uppercase letter and an apostrophe yields two tokens
C25_Witness ==
    /\ Preprocessed
    /\ call.text.value = Join(<<Isnt, car>>)
    /\ call.language = "en"
    /\ result.tokens = <<<<105, 115, 110>>, car>>

\* C26: preprocess of an empty str, of None and of a value that is not a str
\* returns the empty token sequence and raises nothing, under every hint.
C26_NonTextYieldsEmpty ==
    (call.op = "preprocess"
        /\ (call.text.type # "str" \/ call.text.value = <<>>)) =>
        result = [status |-> "ok", tokens |-> <<>>]

\* preprocess has returned [] for the int 7
C26_Witness ==
    /\ call.op = "preprocess"
    /\ call.text = [type |-> "int", number |-> 7]
    /\ result = [status |-> "ok", tokens |-> <<>>]

----------------------------------------------------------------------------
(* The stored average between finalize calls *)

----------------------------------------------------------------------------
(* Document frequencies and the argument of the IDF logarithm *)

----------------------------------------------------------------------------
(* Posting frequencies and document lengths *)

\* the frequencies recorded for doc_id in the posting list of term, summed
PostedFreq(term, doc_id) ==
    LET postings == index[term] IN
    SumOver([i \in 1..Len(postings) |->
                IF postings[i][1] = doc_id THEN postings[i][2] ELSE 0],
            1..Len(postings))

\* C29: after add_document calls with pairwise distinct ids, the frequencies
\* recorded for a document, summed over all terms, make up its recorded
\* length, and the document is at most once in each posting list.
C29_FreqsSumToLength ==
    DistinctIds =>
        \A d \in DOMAIN doc_lengths :
            /\ SumOver([t \in DOMAIN index |-> PostedFreq(t, d)], DOMAIN index)
                    = doc_lengths[d]
            /\ \A t \in DOMAIN index :
                    Cardinality({i \in 1..Len(index[t]) : index[t][i][1] = d}) <= 1

\* two documents under two ids, one with the same term twice, the other with
\* two terms
C29_Witness ==
    /\ DistinctIds
    /\ doc_count = 2
    /\ call.op = "add_document"
    /\ DOMAIN index = {car, bus}
    /\ \E d \in DOMAIN doc_lengths, t \in DOMAIN index :
            doc_lengths[d] = 2 /\ <<d, 2>> \in Range(index[t])
    /\ \E d \in DOMAIN doc_lengths :
            <<d, 1>> \in Range(index[car]) /\ <<d, 1>> \in Range(index[bus])

----------------------------------------------------------------------------
(* build_index_from_documents and build_combined_index.  An InvertedIndex  *)
(* that is not the index of the retriever is the record of its fields.     *)

\* the Bangla word U+09AC U+09BE U+09B8
Bas == <<2476, 2494, 2488>>

\* the documents of bangla_json: one with a stopword and the same word in
\* title and body, one in English only, one of two words
BanglaDocs == {
    [title |-> Gari, body |-> Join(<<Ebong, Gari>>), url |-> "http://bn/a"],
    [title |-> <<>>, body |-> car, url |-> "http://bn/b"],
    [title |-> <<>>, body |-> Join(<<Gari, Bas>>), url |-> "http://bn/c"]
    }

\* the documents of english_json: one with the same word in title and body,
\* one of a stopword only, one with a Bangla word
EnglishDocs == {
    [title |-> car, body |-> Join(<<car, bus>>), url |-> "http://en/a"],
    [title |-> <<>>, body |-> the, url |-> "http://en/b"],
    [title |-> <<>>, body |-> Join(<<bus, Gari>>), url |-> "http://en/c"]
    }

\* InvertedIndex()
EmptyFields ==
    [index |-> [t \in {} |-> <<>>], doc_lengths |-> [d \in {} |-> 0],
     doc_count |-> 0, avg_doc_length |-> Rat(0, 1),
     term_doc_freq |-> [t \in {} |-> 0], documents |-> [d \in {} |-> 0]]

\* the fields after add_document(doc_id, tokens, metadata)
AddDocumentTo(fields, doc_id, tokens, metadata) ==
    [index |-> AppendPostings(fields.index, doc_id, tokens),
     doc_lengths |-> StoreLength(fields.doc_lengths, doc_id, tokens),
     doc_count |-> fields.doc_count + 1,
     avg_doc_length |-> fields.avg_doc_length,
     term_doc_freq |-> BumpDocFreq(fields.term_doc_freq, tokens),
     documents |-> Put(fields.documents, doc_id, metadata)]

\* the fields after finalize()
FinalizeOf(fields) ==
    [fields EXCEPT !.avg_doc_length =
        IF fields.doc_count > 0
        THEN MeanLength(fields.doc_lengths, fields.doc_count) ELSE @]

\* the metadata build_index_from_documents stores for documents[i + 1]
BuildMetadata(doc, language, i) ==
    [title |-> doc.title, url |-> doc.url, language |-> language,
     original_index |-> i]

\* the loop of build_index_from_documents over the first n documents
RECURSIVE BuildLoop(_, _, _)
BuildLoop(docs, language, n) ==
    IF n = 0 THEN EmptyFields
    ELSE AddDocumentTo(BuildLoop(docs, language, n - 1),
                       DocIdOf(language, n - 1),
                       preprocess(DocText(docs[n]), language),
                       BuildMetadata(docs[n], language, n - 1))

build_index_from_documents(docs, language) ==
    FinalizeOf(BuildLoop(docs, language, Len(docs)))

\* [term] * freq that takes the term once
RepeatedOnce(term, freq) == <<term>>

\* [term] * freq
Repeated(term, freq) == [i \in 1..freq |-> term]

\* the inner loop of the reconstruction: [term] * freq of every posting of doc_id
RECURSIVE PostingTokens(_, _, _)
PostingTokens(postings, term, doc_id) ==
    IF postings = <<>> THEN <<>>
    ELSE (IF postings[1][1] = doc_id THEN Repeated(term, postings[1][2]) ELSE <<>>)
         \o PostingTokens(Tail(postings), term, doc_id)

\* the outer loop of the reconstruction over the terms of the index; only the
\* count of each term in the list reaches add_document
RECURSIVE ReconstructOver(_, _, _)
ReconstructOver(fields, doc_id, terms) ==
    IF terms = {} THEN <<>>
    ELSE LET t == CHOOSE x \in terms : TRUE IN
         PostingTokens(fields.index[t], t, doc_id)
            \o ReconstructOver(fields, doc_id, terms \ {t})

\* the tokens of doc_id reconstructed from an index
ReconstructTokens(fields, doc_id) ==
    ReconstructOver(fields, doc_id, DOMAIN fields.index)

\* the loop over source.documents.items(): the documents of the source index
\* in the order they were added, the first n of them
RECURSIVE AddAllFrom(_, _, _, _)
AddAllFrom(combined, source, language, n) ==
    IF n = 0 THEN combined
    ELSE LET doc_id == DocIdOf(language, n - 1) IN
         AddDocumentTo(AddAllFrom(combined, source, language, n - 1),
                       doc_id, ReconstructTokens(source, doc_id),
                       source.documents[doc_id])

\* the three indexes build_combined_index returns
build_combined_index(bangla_docs, english_docs) ==
    LET bangla_index == build_index_from_documents(bangla_docs, "bn")
        english_index == build_index_from_documents(english_docs, "en")
        with_bangla == AddAllFrom(EmptyFields, bangla_index, "bn",
                                  bangla_index.doc_count)
        with_both == AddAllFrom(with_bangla, english_index, "en",
                                english_index.doc_count)
    IN  [bangla_index |-> bangla_index, english_index |-> english_index,
         combined_index |-> FinalizeOf(with_both)]

\* the document lists of the two JSON files
CombinedArgs ==
    {[op |-> "args", bangla_docs |-> bangla_docs, english_docs |-> english_docs] :
        bangla_docs \in SeqsUpTo(BanglaDocs, MaxCorpus),
        english_docs \in SeqsUpTo(EnglishDocs, MaxCorpus)}

\* build_combined_index of each pair of document lists, computed once
BuiltOf ==
    [args \in CombinedArgs |->
        build_combined_index(args.bangla_docs, args.english_docs)]

\* the two document lists, nothing built yet
InitCombined ==
    /\ IdleIndex
    /\ DefaultParams
    /\ loaded = FALSE
    /\ call \in CombinedArgs
    /\ result = NoResult

\* build_combined_index: the index variables become the combined index, whose
\* file is written last; the per-language indexes and their files are in the
\* result
BuildCombinedIndex ==
    /\ call.op = "args"
    /\ LET built == BuiltOf[call]
           combined == built.combined_index
           ids == [i \in 1..built.bangla_index.doc_count |-> DocIdOf("bn", i - 1)]
                  \o [i \in 1..built.english_index.doc_count |-> DocIdOf("en", i - 1)]
           history == [added |-> ids, seen_terms |-> DOMAIN combined.index,
                       finalized |-> TRUE]
       IN  /\ index' = combined.index
           /\ doc_lengths' = combined.doc_lengths
           /\ doc_count' = combined.doc_count
           /\ avg_doc_length' = combined.avg_doc_length
           /\ term_doc_freq' = combined.term_doc_freq
           /\ documents' = combined.documents
           /\ added' = history.added
           /\ seen_terms' = history.seen_terms
           /\ finalized' = history.finalized
           /\ blob' = [exists |-> TRUE, data |-> SaveData(combined)]
           /\ saved' = [fields |-> combined, history |-> history]
           /\ result' = [status |-> "ok",
                         bangla_index |-> built.bangla_index,
                         english_index |-> built.english_index,
                         bangla_file |-> SaveData(built.bangla_index),
                         english_file |-> SaveData(built.english_index)]
    /\ call' = [call EXCEPT !.op = "build_combined_index"]
    /\ UNCHANGED retriever_vars

NextCombined == BuildCombinedIndex

SpecCombined == InitCombined /\ [][NextCombined]_vars

\* the frequency an index records for doc_id in the posting list of term
RecordedTf(ix, term, doc_id) ==
    LET postings == Get(ix, term, <<>>)
        hits == {i \in 1..Len(postings) : postings[i][1] = doc_id}
    IN  IF hits = {} THEN 0 ELSE postings[CHOOSE i \in hits : TRUE][2]

\* every document of a list added straight to an index, under its id
RECURSIVE AddDirectly(_, _, _, _)
AddDirectly(fields, docs, language, n) ==
    IF n = 0 THEN fields
    ELSE AddDocumentTo(AddDirectly(fields, docs, language, n - 1),
                       DocIdOf(language, n - 1),
                       preprocess(DocText(docs[n]), language),
                       BuildMetadata(docs[n], language, n - 1))

\* C30: the combined index of build_combined_index is the index that adding
\* every Bangla and then every English document directly and finalizing
\* gives: the ids are pairwise distinct, doc_count is the sum of the two
\* per-language counts, every document, with or without tokens, has the
\* length, the metadata and the frequency of every term that its
\* per-language index records, and the document frequency of every term is
\* the sum of the two per-language document frequencies.
C30_CombinedIsSumOfLanguages ==
    call.op = "build_combined_index" =>
        LET bn == result.bangla_index
            en == result.english_index
            terms == DOMAIN index \cup DOMAIN bn.index \cup DOMAIN en.index
            SameDocs(src) ==
                \A d \in DOMAIN src.documents :
                    /\ d \in DOMAIN documents /\ d \in DOMAIN doc_lengths
                    /\ doc_lengths[d] = src.doc_lengths[d]
                    /\ documents[d] = src.documents[d]
                    /\ \A t \in terms :
                        RecordedTf(index, t, d) = RecordedTf(src.index, t, d)
        IN  /\ DistinctIds
            /\ DOMAIN bn.documents \cap DOMAIN en.documents = {}
            /\ DOMAIN documents = DOMAIN bn.documents \cup DOMAIN en.documents
            /\ Cardinality(DOMAIN documents) = doc_count
            /\ doc_count = bn.doc_count + en.doc_count
            /\ bn.doc_count = Len(call.bangla_docs)
            /\ en.doc_count = Len(call.english_docs)
            /\ SameDocs(bn)
            /\ SameDocs(en)
            /\ \A t \in terms :
                    Get(term_doc_freq, t, 0)
                        = Get(bn.term_doc_freq, t, 0) + Get(en.term_doc_freq, t, 0)
            /\ IndexFields =
                    FinalizeOf(AddDirectly(
                        AddDirectly(EmptyFields, call.bangla_docs, "bn",
                                    Len(call.bangla_docs)),
                        call.english_docs, "en", Len(call.english_docs)))

\* two documents of each language, one of them without tokens and one with
\* a term twice
C30_Witness ==
    /\ call.op = "build_combined_index"
    /\ result.bangla_index.doc_count = 2
    /\ result.english_index.doc_count = 2
    /\ doc_count = 4
    /\ \E d \in DOMAIN doc_lengths : doc_lengths[d] = 0
    /\ Gari \in DOMAIN index /\ <<"bn_0", 2>> \in Range(index[Gari])
    /\ car \in DOMAIN index /\ <<"en_1", 2>> \in Range(index[car])

====
